---- MODULE Spec2Model ----
(***************************************************************************)
(* Model of pkg/testdb/pristine.go: the registry of named background DB    *)
(* pools (backgroundDBPoolsByName), the pools' provisioner goroutines      *)
(* (prepareNewDB), the ledger-guarded preparation (prepareDBs) and the     *)
(* caller-facing pristineDBs with its 45 s wait.                           *)
(*                                                                         *)
(* log.Fatal / log.Fatalf and a runtime panic end the whole process: the   *)
(* variable fatal records the cause and no goroutine takes a step after.   *)
(***************************************************************************)
EXTENDS Naturals, Integers, Sequences, FiniteSets, Bags, TLC

\* ---------------------------------------------------------------- bounds
\* Number of pristineDBs calls made during one run of the process.
MaxCalls == 2
\* Value of the -db.pool flag (the source's default is 8); at least 1, so
\* that readyDBs is a buffered channel.
initialPoolSize == 1
\* Seconds by which one Tick advances the clock.
TickStep == 15
\* Number of distinct pool names the calls use.
MaxNames == 1
\* Number of pristineDBs calls made in the runs checked for liveness.
FairCalls == 2
\* Number of pristineDBs calls made in the runs that keep the backend calls.
TraceCalls == 1
\* Number of prepareDBs invocations driven by SpecPrepare.
MaxPrepCalls == 2
\* Identities SpecPrepare draws from.
MaxPrepID == 2

\* ------------------------------------------------------ program constants
\* const timeout = 45 * time.Second
timeout == 45

\* Pool names and non-nil *dbutil2.Schema pointers, in the order in which a
\* run first uses them; "nil" is the nil schema pointer.
NameSeq == <<"a", "b">>
SchemaSeq == <<"s1", "s2">>
PoolNames == {NameSeq[i] : i \in 1..MaxNames}
Schemas == {"nil"} \cup {SchemaSeq[i] : i \in 1..Len(SchemaSeq)}
\* Values of label: empty, or the name of the test binary.
Labels == {"", "pkg"}
Calls == 1..MaxCalls
IDs == 1..(initialPoolSize + MaxCalls + MaxPrepID)

VARIABLES
    label,                    \* var label (process-wide)
    dropSchema,               \* flag -db.drop
    createSchema,             \* flag -db.create
    truncate,                 \* flag -db.truncate
    backgroundDBPoolsByName,  \* name -> index into pools, 0 when absent
    backgroundDBPoolsLock,    \* 0, or the call holding the registry mutex
    pools,                    \* the backgroundDBPool objects ever constructed
    tasks,                    \* the goroutines ever started with `go`
    calls,                    \* the pristineDBs calls
    fatal,                    \* "none", or why the process has terminated
    snapshotter,              \* src-expose: the Snapshotter and where its Run stands
    disk,                     \* src-expose: the directories of each Snapshot
    writer                    \* src-expose: a lineCountWriter and what it was given

vars == <<label, dropSchema, createSchema, truncate, backgroundDBPoolsByName,
          backgroundDBPoolsLock, pools, tasks, calls, fatal,
          snapshotter, disk, writer>>

\* src-expose is another program: no step of package testdb touches its state.
srcExpose == <<snapshotter, disk, writer>>

\* What no step of package testdb changes.
config == <<label, dropSchema, createSchema, truncate, srcExpose>>

\* The zero value of lineCountWriter (inline false, lines 0), with nothing
\* given to it yet. Beside the two fields of the struct: err, the last
\* Write returned an error; closed, Close has been called; input, the bytes
\* given to Write so far, with the newline of each Close that ended an open
\* line; writes, the Write calls that were given bytes; failed, the Write
\* calls that returned an error.
lineCountWriter ==
    [inline |-> FALSE, lines |-> 0, err |-> FALSE, closed |-> FALSE,
     input |-> << >>, writes |-> 0, failed |-> 0]

\* src-expose not running.
NoSrcExpose ==
    /\ snapshotter = [Dir |-> << >>, Destination |-> << >>, DirMode |-> "",
                      PreCommand |-> FALSE, Snapshots |-> << >>,
                      pc |-> "returned", next |-> 0, err |-> "nil"]
    /\ disk = [Dir |-> << >>, Destination |-> << >>, commits |-> << >>, ops |-> << >>]
    /\ writer = lineCountWriter

\* &backgroundDBPool{}: the zero value (nil schema, nil channel, nil maps).
backgroundDBPool(name) ==
    [name     |-> name,
     schema   |-> "nil",
     made     |-> FALSE,       \* readyDBs has been made (is not the nil channel)
     cap      |-> 0,           \* capacity of readyDBs
     readyDBs |-> << >>,
     mu       |-> FALSE,       \* b.mu is locked
     dropped  |-> {},          \* ids with dropped[id] = true
     created  |-> {},          \* ids with created[id] = true
     nextID   |-> 0,
     log      |-> [i \in IDs |-> << >>]]   \* operations performed on each id's handle

\* A goroutine running b.prepareNewDB (kind "provision"), or a direct
\* invocation of b.prepareDBs (kind "prepare"). Goroutines have no name:
\* tasks is the bag of their states.
NewTask(p) ==
    [kind |-> "provision", pool |-> p, pc |-> "alloc", id |-> 0,
     drop |-> FALSE, create |-> FALSE, truncate |-> FALSE]

One(r) == SetToBag({r})

\* n times `go b.prepareNewDB(poolName)`
RECURSIVE Spawn(_, _, _)
Spawn(ts, p, n) == IF n = 0 THEN ts ELSE Spawn(ts (+) One(NewTask(p)), p, n - 1)

\* The goroutine in state r moves to state r2.
Step(r, r2) == (tasks (-) One(r)) (+) One(r2)

IdleCall == [pc |-> "idle", name |-> "a", schema |-> "nil", b |-> 0, dbh |-> 0, elapsed |-> 0]

Init ==
    /\ label \in Labels
    /\ dropSchema = TRUE        \* the flags keep their defaults; SpecPrepare
    /\ createSchema = TRUE      \* drives prepareDBs with every combination
    /\ truncate = TRUE
    /\ backgroundDBPoolsByName = [n \in PoolNames |-> 0]
    /\ backgroundDBPoolsLock = 0
    /\ pools = << >>
    /\ tasks = EmptyBag
    /\ calls = [c \in Calls |-> IdleCall]
    /\ fatal = "none"
    /\ NoSrcExpose

\* log.Fatal, log.Fatalf and an unrecovered panic call os.Exit: after one of
\* them no goroutine of the process runs.
Running_OnlyCallFatal == fatal \in {"none", "ProvisionTimeout"}
Running == fatal = "none"

\* ------------------------------------------------------------ pristineDBs
\* Names and schemas are opaque values compared only for equality: a call
\* passes one that an earlier call passed, or the next unused one of the
\* sequence q (of which the first max are in use), or the nil schema.
Begun == {c \in Calls : calls[c].pc # "idle"}

Fresh(q, max, used) ==
    LET k == Cardinality({i \in 1..max : q[i] \in used})
    IN {q[i] : i \in 1..(IF k < max THEN k + 1 ELSE k)}

\* A test calls pristineDBs(poolName, schema). Calls are numbered in the
\* order in which they begin.
Call(c) ==
    /\ Running
    /\ calls[c].pc = "idle"
    /\ IF c = 1 THEN TRUE ELSE calls[c - 1].pc # "idle"
    /\ \E n \in Fresh(NameSeq, MaxNames, {calls[d].name : d \in Begun}),
          s \in {"nil"} \cup Fresh(SchemaSeq, Len(SchemaSeq), {calls[d].schema : d \in Begun}) :
          calls' = [calls EXCEPT ![c].pc = "lock", ![c].name = n, ![c].schema = s]
    /\ UNCHANGED <<config, backgroundDBPoolsByName, backgroundDBPoolsLock, pools, tasks, fatal>>

\* b.start(poolName, schema) on the pool object at index p of ps: the pools,
\* tasks and fatal it leaves behind.
start_LabelCheckedLast(p, ps, schema) ==
    [pools |-> [ps EXCEPT ![p].schema = schema, ![p].made = TRUE,
                          ![p].cap = initialPoolSize],
     tasks |-> Spawn(tasks, p, initialPoolSize),
     fatal |-> IF label = "" THEN "ConfigError" ELSE "none"]
start_Unmade(p, ps, schema) ==
    [pools |-> [ps EXCEPT ![p].schema = schema],
     tasks |-> tasks,
     fatal |-> IF label = "" THEN "ConfigError" ELSE "none"]
start(p, ps, schema) ==
    LET bound == [ps EXCEPT ![p].schema = schema] IN
    IF label = ""
    THEN [pools |-> bound, tasks |-> tasks, fatal |-> "ConfigError"]
    ELSE [pools |-> [bound EXCEPT ![p].made = TRUE, ![p].cap = initialPoolSize],
          tasks |-> Spawn(tasks, p, initialPoolSize),
          fatal |-> "none"]

\* _, ok := backgroundDBPoolsByName[poolName]; !ok
Missing_Always(n) == TRUE
Missing(n) == backgroundDBPoolsByName[n] = 0

\* backgroundDBPoolsLock.Lock()
\* if _, ok := backgroundDBPoolsByName[poolName]; !ok { ...start... }
\* b = backgroundDBPoolsByName[poolName]
LookupOrCreate(c) ==
    /\ Running
    /\ calls[c].pc = "lock"
    /\ backgroundDBPoolsLock = 0
    /\ backgroundDBPoolsLock' = c
    /\ LET n == calls[c].name IN
       IF Missing(n)
       THEN LET p == Len(pools) + 1
                r == start(p, Append(pools, backgroundDBPool(n)), calls[c].schema)
            IN /\ backgroundDBPoolsByName' = [backgroundDBPoolsByName EXCEPT ![n] = p]
               /\ pools' = r.pools
               /\ tasks' = r.tasks
               /\ fatal' = r.fatal
               /\ calls' = [calls EXCEPT ![c].pc = IF r.fatal = "none" THEN "unlock" ELSE "lock",
                                         ![c].b = IF r.fatal = "none" THEN p ELSE 0]
       ELSE /\ calls' = [calls EXCEPT ![c].pc = "unlock", ![c].b = backgroundDBPoolsByName[n]]
            /\ UNCHANGED <<backgroundDBPoolsByName, pools, tasks, fatal>>
    /\ UNCHANGED config

\* schema != nil && b.schema != schema
SchemaMismatch_Inverted(schema, bound) == schema = "nil" /\ bound # schema
SchemaMismatch_NilRejected(schema, bound) == bound # schema
SchemaMismatch(schema, bound) == schema # "nil" /\ bound # schema

\* go b.prepareNewDB(poolName)
Replenish_None(ts, b) == ts
Replenish_Twice(ts, b) == Spawn(ts, b, 2)
Replenish(ts, b) == Spawn(ts, b, 1)

\* backgroundDBPoolsLock.Unlock(): from here on another call may take the
\* registry lock while this one has not yet tested b or its schema.
Release(c) ==
    /\ Running
    /\ calls[c].pc = "unlock"
    /\ backgroundDBPoolsLock' = 0
    /\ calls' = [calls EXCEPT ![c].pc = "check"]
    /\ UNCHANGED <<config, backgroundDBPoolsByName, pools, tasks, fatal>>

\* if b == nil { log.Fatalf } ; if schema != nil && b.schema != schema { log.Fatalf }
\* go b.prepareNewDB(poolName), and the select starts its timer. None of it
\* is done under the registry lock.
Acquire_ReplenishFirst(c) ==
    /\ Running
    /\ calls[c].pc = "check"
    /\ LET b == calls[c].b IN
       IF b = 0
       THEN /\ fatal' = "PoolNotAvailable"
            /\ calls' = [calls EXCEPT ![c].pc = "nopool"]
            /\ UNCHANGED tasks
       ELSE /\ tasks' = Replenish(tasks, b)
            /\ IF SchemaMismatch(calls[c].schema, pools[b].schema)
               THEN /\ fatal' = "SchemaMismatch"
                    /\ calls' = [calls EXCEPT ![c].pc = "mismatch"]
               ELSE /\ calls' = [calls EXCEPT ![c].pc = "wait", ![c].elapsed = 0]
                    /\ UNCHANGED fatal
    /\ UNCHANGED <<config, backgroundDBPoolsByName, backgroundDBPoolsLock, pools>>
Acquire_Rebind(c) ==
    /\ Running
    /\ calls[c].pc = "check"
    /\ LET b == calls[c].b IN
       IF b = 0
       THEN /\ fatal' = "PoolNotAvailable"
            /\ calls' = [calls EXCEPT ![c].pc = "nopool"]
            /\ UNCHANGED <<tasks, pools>>
       ELSE /\ pools' = [pools EXCEPT ![b].schema =
                            IF calls[c].schema # "nil" THEN calls[c].schema ELSE @]
            /\ tasks' = Replenish(tasks, b)
            /\ calls' = [calls EXCEPT ![c].pc = "wait", ![c].elapsed = 0]
            /\ UNCHANGED fatal
    /\ UNCHANGED <<config, backgroundDBPoolsByName, backgroundDBPoolsLock>>
Acquire(c) ==
    /\ Running
    /\ calls[c].pc = "check"
    /\ LET b == calls[c].b IN
       IF b = 0
       THEN /\ fatal' = "PoolNotAvailable"
            /\ calls' = [calls EXCEPT ![c].pc = "nopool"]
            /\ UNCHANGED tasks
       ELSE IF SchemaMismatch(calls[c].schema, pools[b].schema)
       THEN /\ fatal' = "SchemaMismatch"
            /\ calls' = [calls EXCEPT ![c].pc = "mismatch"]
            /\ UNCHANGED tasks
       ELSE /\ tasks' = Replenish(tasks, b)
            /\ calls' = [calls EXCEPT ![c].pc = "wait", ![c].elapsed = 0]
            /\ UNCHANGED fatal
    /\ UNCHANGED <<config, backgroundDBPoolsByName, backgroundDBPoolsLock, pools>>

\* The buffer of readyDBs after a receive has taken its first element.
Dequeue_Keep(q) == q
Dequeue(q) == Tail(q)

\* case dbh := <-b.readyDBs: return dbh
Receive(c) ==
    /\ Running
    /\ calls[c].pc = "wait"
    /\ LET b == calls[c].b IN
       /\ pools[b].made
       /\ pools[b].readyDBs # << >>
       /\ calls' = [calls EXCEPT ![c].pc = "got", ![c].dbh = Head(pools[b].readyDBs),
                                 ![c].elapsed = 0]
       /\ pools' = [pools EXCEPT ![b].readyDBs = Dequeue(@)]
    /\ UNCHANGED <<config, backgroundDBPoolsByName, backgroundDBPoolsLock, tasks, fatal>>

\* The timer of time.After(timeout) has fired after elapsed seconds.
Expired_Early(elapsed) == elapsed > 0
Expired_Never(elapsed) == FALSE
Expired(elapsed) == elapsed >= timeout

\* case <-time.After(timeout): log.Fatalf
Timeout(c) ==
    /\ Running
    /\ calls[c].pc = "wait"
    /\ Expired(calls[c].elapsed)
    /\ calls' = [calls EXCEPT ![c].pc = "timeout"]
    /\ fatal' = "ProvisionTimeout"
    /\ UNCHANGED <<config, backgroundDBPoolsByName, backgroundDBPoolsLock, pools, tasks>>

\* Time passes for every call waiting in the select. A timer that has
\* reached timeout is not advanced further.
Tick ==
    /\ Running
    /\ \E c \in Calls : calls[c].pc = "wait" /\ calls[c].elapsed < timeout
    /\ calls' = [c \in Calls |->
                   IF calls[c].pc = "wait" /\ calls[c].elapsed < timeout
                   THEN [calls[c] EXCEPT !.elapsed = @ + TickStep]
                   ELSE calls[c]]
    /\ UNCHANGED <<config, backgroundDBPoolsByName, backgroundDBPoolsLock, pools, tasks, fatal>>

\* ----------------------------------------------------------- prepareNewDB
IsTask(r) == BagIn(r, tasks)

\* atomic.AddInt32(&b.nextID, 1): the new value of the counter, which is
\* both stored and returned, in one indivisible step.
AddInt32_Lost(n) == IF n > 0 THEN n ELSE n + 1
AddInt32(n) == n + 1

\* Where prepareNewDB stands after createdb has answered:
\*   _ = exec.Command("createdb", dbname).Run()         (result discarded)
Createdb_Checked(createdbOK) == IF createdbOK THEN "open" ELSE "createdbfailed"
Createdb(createdbOK) == "open"

\* Where prepareNewDB stands after dbutil2.Open has answered:
\*   dbh, err := dbutil2.Open("dbname="+dbname, *b.schema)
\*   if err != nil { log.Fatal(...) }
\* *b.schema panics on a nil b.schema, before Open is called.
Opened_PrepareSkipped(schema, openOK) ==
    IF schema = "nil" THEN "panic"
    ELSE IF ~openOK THEN "openfailed" ELSE "push"
Opened_ErrorIgnored(schema, openOK) ==
    IF schema = "nil" THEN "panic" ELSE "lock"
Opened(schema, openOK) ==
    IF schema = "nil" THEN "panic"
    ELSE IF ~openOK THEN "openfailed" ELSE "lock"

\* What the backend has been asked for one identity, with the result.
BackendCall(op, ok) == <<IF ok THEN op ELSE op \o "-failed">>

\* id := atomic.AddInt32(&b.nextID, 1)
\* The identity is taken before any backend call: other goroutines run
\* between this step and the ones that follow.
Alloc(r) ==
    /\ Running
    /\ IsTask(r)
    /\ r.pc = "alloc"
    /\ LET p == r.pool
           id == AddInt32(pools[p].nextID)
       IN /\ pools' = [pools EXCEPT ![p].nextID = id]
          /\ tasks' = Step(r, [r EXCEPT !.pc = "createdb", !.id = id])
    /\ UNCHANGED <<config, backgroundDBPoolsByName, backgroundDBPoolsLock, calls, fatal>>

\* _ = exec.Command("createdb", dbname).Run()
\* With traced, the backend call and its result are kept in the pool's log
\* of the identity; the program itself keeps none of them.
CreateDatabase(r, results, traced) ==
    /\ Running
    /\ IsTask(r)
    /\ r.pc = "createdb"
    /\ \E createdbOK \in results :
          LET pc == Createdb(createdbOK) IN
          /\ pools' = [pools EXCEPT ![r.pool].log[r.id] =
                         IF traced THEN @ \o BackendCall("createdb", createdbOK) ELSE @]
          /\ fatal' = IF pc = "createdbfailed" THEN "CreatedbFailed" ELSE fatal
          /\ tasks' = Step(r, [r EXCEPT !.pc = pc])
    /\ UNCHANGED <<config, backgroundDBPoolsByName, backgroundDBPoolsLock, calls>>

\* dbh, err := dbutil2.Open("dbname="+dbname, *b.schema); if err != nil { log.Fatal }
\* b.prepareDBs(int(id), dbh, *dropSchema, *createSchema, *truncate)   (the call)
OpenHandle(r, results, traced) ==
    /\ Running
    /\ IsTask(r)
    /\ r.pc = "open"
    /\ LET p == r.pool IN
       \E openOK \in results :
          LET pc == Opened(pools[p].schema, openOK) IN
          /\ pools' = [pools EXCEPT ![p].log[r.id] =
                         IF traced /\ pools[p].schema # "nil"
                         THEN @ \o BackendCall("open", openOK)
                         ELSE @]
          /\ fatal' = CASE pc = "panic" -> "NilSchemaPanic"
                        [] pc = "openfailed" -> "OpenFailed"
                        [] OTHER -> fatal
          /\ tasks' = IF pc = "lock"
                      THEN Step(r, [r EXCEPT !.pc = pc,
                                             !.drop = dropSchema,
                                             !.create = createSchema,
                                             !.truncate = truncate])
                      ELSE Step(r, [r EXCEPT !.pc = pc])
    /\ UNCHANGED <<config, backgroundDBPoolsByName, backgroundDBPoolsLock, calls>>

\* prepareNewDB up to its call of prepareDBs.
Provision(r, results, traced) ==
    \/ Alloc(r)
    \/ CreateDatabase(r, results, traced)
    \/ OpenHandle(r, results, traced)

Open(r, results) == Provision(r, results, FALSE)

OpenTraced(r, results) == Provision(r, results, TRUE)

\* ------------------------------------------------------------- prepareDBs
\* b.mu.Lock()
Lock_NoWait(r) ==
    /\ Running
    /\ IsTask(r)
    /\ r.pc = "lock"
    /\ pools' = [pools EXCEPT ![r.pool].mu = TRUE]
    /\ tasks' = Step(r, [r EXCEPT !.pc = "drop"])
    /\ UNCHANGED <<config, backgroundDBPoolsByName, backgroundDBPoolsLock, calls, fatal>>
Lock(r) ==
    /\ Running
    /\ IsTask(r)
    /\ r.pc = "lock"
    /\ ~pools[r.pool].mu
    /\ pools' = [pools EXCEPT ![r.pool].mu = TRUE]
    /\ tasks' = Step(r, [r EXCEPT !.pc = "drop"])
    /\ UNCHANGED <<config, backgroundDBPoolsByName, backgroundDBPoolsLock, calls, fatal>>

\* drop && !b.dropped[id]   (and create && !b.created[id])
Needed_Always(flag, done, id) == flag
Needed_FlagIgnored(flag, done, id) == id \notin done
Needed(flag, done, id) == flag /\ id \notin done

\* if drop && !b.dropped[id] { mdb.DropSchema() ... b.dropped[id] = true }
Drop_MarkedFirst(r, results) ==
    /\ Running
    /\ IsTask(r)
    /\ r.pc = "drop"
    /\ LET p == r.pool
           id == r.id
       IN IF Needed(r.drop, pools[p].dropped, id)
          THEN \E ok \in results :
                 /\ pools' = [pools EXCEPT ![p].dropped = @ \cup {id},
                                           ![p].log[id] = Append(@, "drop")]
                 /\ IF ok
                    THEN /\ tasks' = Step(r, [r EXCEPT !.pc = "create"])
                         /\ UNCHANGED fatal
                    ELSE /\ tasks' = Step(r, [r EXCEPT !.pc = "dropfailed"])
                         /\ fatal' = "SchemaDropFailed"
          ELSE /\ tasks' = Step(r, [r EXCEPT !.pc = "create"])
               /\ UNCHANGED <<pools, fatal>>
    /\ UNCHANGED <<config, backgroundDBPoolsByName, backgroundDBPoolsLock, calls>>
Drop(r, results) ==
    /\ Running
    /\ IsTask(r)
    /\ r.pc = "drop"
    /\ LET p == r.pool
           id == r.id
       IN IF Needed(r.drop, pools[p].dropped, id)
          THEN \E ok \in results :
                 IF ok
                 THEN /\ pools' = [pools EXCEPT ![p].dropped = @ \cup {id},
                                                ![p].log[id] = Append(@, "drop")]
                      /\ tasks' = Step(r, [r EXCEPT !.pc = "create"])
                      /\ UNCHANGED fatal
                 ELSE /\ pools' = [pools EXCEPT ![p].log[id] = Append(@, "drop")]
                      /\ tasks' = Step(r, [r EXCEPT !.pc = "dropfailed"])
                      /\ fatal' = "SchemaDropFailed"
          ELSE /\ tasks' = Step(r, [r EXCEPT !.pc = "create"])
               /\ UNCHANGED <<pools, fatal>>
    /\ UNCHANGED <<config, backgroundDBPoolsByName, backgroundDBPoolsLock, calls>>

\* if create && !b.created[id] { mdb.CreateSchema() ... b.created[id] = true }
Create(r, results) ==
    /\ Running
    /\ IsTask(r)
    /\ r.pc = "create"
    /\ LET p == r.pool
           id == r.id
       IN IF Needed(r.create, pools[p].created, id)
          THEN \E ok \in results :
                 IF ok
                 THEN /\ pools' = [pools EXCEPT ![p].created = @ \cup {id},
                                                ![p].log[id] = Append(@, "create")]
                      /\ tasks' = Step(r, [r EXCEPT !.pc = "truncate"])
                      /\ UNCHANGED fatal
                 ELSE /\ pools' = [pools EXCEPT ![p].log[id] = Append(@, "create")]
                      /\ tasks' = Step(r, [r EXCEPT !.pc = "createfailed"])
                      /\ fatal' = "SchemaCreateFailed"
          ELSE /\ tasks' = Step(r, [r EXCEPT !.pc = "truncate"])
               /\ UNCHANGED <<pools, fatal>>
    /\ UNCHANGED <<config, backgroundDBPoolsByName, backgroundDBPoolsLock, calls>>

\* if truncate { mdb.TruncateTables() ... }
Truncate(r, results) ==
    /\ Running
    /\ IsTask(r)
    /\ r.pc = "truncate"
    /\ LET p == r.pool
           id == r.id
       IN IF r.truncate
          THEN \E ok \in results :
                 /\ pools' = [pools EXCEPT ![p].log[id] = Append(@, "truncate")]
                 /\ IF ok
                    THEN /\ tasks' = Step(r, [r EXCEPT !.pc = "unlock"])
                         /\ UNCHANGED fatal
                    ELSE /\ tasks' = Step(r, [r EXCEPT !.pc = "truncatefailed"])
                         /\ fatal' = "TruncateFailed"
          ELSE /\ tasks' = Step(r, [r EXCEPT !.pc = "unlock"])
               /\ UNCHANGED <<pools, fatal>>
    /\ UNCHANGED <<config, backgroundDBPoolsByName, backgroundDBPoolsLock, calls>>

\* defer b.mu.Unlock(), and the return to the caller of prepareDBs
Unlock_NoRelease(r) ==
    /\ Running
    /\ IsTask(r)
    /\ r.pc = "unlock"
    /\ tasks' = Step(r, [r EXCEPT !.pc = IF r.kind = "provision" THEN "push" ELSE "done"])
    /\ UNCHANGED <<config, backgroundDBPoolsByName, backgroundDBPoolsLock, pools, calls, fatal>>
Unlock(r) ==
    /\ Running
    /\ IsTask(r)
    /\ r.pc = "unlock"
    /\ pools' = [pools EXCEPT ![r.pool].mu = FALSE]
    /\ tasks' = Step(r, [r EXCEPT !.pc = IF r.kind = "provision" THEN "push" ELSE "done"])
    /\ UNCHANGED <<config, backgroundDBPoolsByName, backgroundDBPoolsLock, calls, fatal>>

\* A send on the buffered channel q of capacity cap can proceed.
CanSend_Unbounded(q, cap) == TRUE
CanSend(q, cap) == Len(q) < cap

\* b.readyDBs <- dbh : blocks while the channel's buffer is full
Push(r) ==
    /\ Running
    /\ IsTask(r)
    /\ r.pc = "push"
    /\ LET p == r.pool IN
       /\ pools[p].made
       /\ CanSend(pools[p].readyDBs, pools[p].cap)
       /\ pools' = [pools EXCEPT ![p].readyDBs = Append(@, r.id)]
    /\ tasks' = Step(r, [r EXCEPT !.pc = "done"])
    /\ UNCHANGED <<config, backgroundDBPoolsByName, backgroundDBPoolsLock, calls, fatal>>

\* -------------------------------------------------------- specifications
\* The steps of prepareDBs in the goroutine whose state is r, with the
\* backend answering from results.
prepareDBs(r, results) ==
    \/ Lock(r)
    \/ Drop(r, results)
    \/ Create(r, results)
    \/ Truncate(r, results)
    \/ Unlock(r)

prepareNewDB(r, results) ==
    \/ Open(r, results)
    \/ prepareDBs(r, results)
    \/ Push(r)

\* The steps of the call c after it has begun.
pristineDBs(c) ==
    \/ LookupOrCreate(c)
    \/ Release(c)
    \/ Acquire(c)
    \/ Receive(c)
    \/ Timeout(c)

Next ==
    \/ \E c \in Calls : Call(c)
    \/ \E c \in Calls : pristineDBs(c)
    \/ \E r \in BagToSet(tasks) : prepareNewDB(r, BOOLEAN)
    \/ Tick

Spec == Init /\ [][Next]_vars

\* ---- Runs checked for liveness: FairCalls calls, label set.
InitFair == Init /\ label = "pkg"

\* The goroutine of pool p that holds identity i (0: none allocated yet).
TaskOf(p, i) == {r \in BagToSet(tasks) : r.pool = p /\ r.id = i}

\* The steps of a goroutine that do not wait for the backend.
Internal(r) == Alloc(r) \/ Lock(r) \/ Unlock(r) \/ Push(r)

NextFair ==
    \/ \E c \in 1..FairCalls : Call(c)
    \/ \E c \in 1..FairCalls : pristineDBs(c)
    \/ \E r \in BagToSet(tasks) : prepareNewDB(r, BOOLEAN)
    \/ Tick

\* The Go scheduler runs every runnable goroutine and time passes; the
\* backend (createdb, Open, DropSchema, ...) may fail and may never answer.
FairSpec ==
    /\ InitFair
    /\ [][NextFair]_vars
    /\ WF_vars(Tick)
    /\ \A c \in 1..FairCalls : WF_vars(pristineDBs(c))
    /\ \A p \in 1..MaxNames : \A i \in IDs :
          WF_vars(\E r \in TaskOf(p, i) : Internal(r))

NextOK ==
    \/ \E c \in 1..FairCalls : Call(c)
    \/ \E c \in 1..FairCalls : pristineDBs(c)
    \/ \E r \in BagToSet(tasks) : prepareNewDB(r, {TRUE})
    \/ Tick

\* As FairSpec, with a backend that always answers and always succeeds.
FairSpecOK ==
    /\ InitFair
    /\ [][NextOK]_vars
    /\ WF_vars(Tick)
    /\ \A c \in 1..FairCalls : WF_vars(pristineDBs(c))
    /\ \A p \in 1..MaxNames : \A i \in {0} \cup IDs :
          WF_vars(\E r \in TaskOf(p, i) : prepareNewDB(r, {TRUE}))

\* ---- prepareDBs driven directly on one started pool.
InitPrepare ==
    /\ label = "pkg"
    /\ dropSchema = TRUE
    /\ createSchema = TRUE
    /\ truncate = TRUE
    /\ backgroundDBPoolsByName = [n \in PoolNames |-> IF n = NameSeq[1] THEN 1 ELSE 0]
    /\ backgroundDBPoolsLock = 0
    /\ pools = <<[backgroundDBPool(NameSeq[1]) EXCEPT
                    !.schema = "s1", !.made = TRUE, !.cap = initialPoolSize]>>
    /\ tasks = EmptyBag
    /\ calls = [c \in Calls |-> IdleCall]
    /\ fatal = "none"
    /\ NoSrcExpose

\* go b.prepareDBs(id, mdb, drop, create, truncate)
Prepare(id, drop, create, trunc) ==
    /\ Running
    /\ BagCardinality(tasks) < MaxPrepCalls
    /\ tasks' = tasks (+) One([kind |-> "prepare", pool |-> 1, pc |-> "lock", id |-> id,
                               drop |-> drop, create |-> create, truncate |-> trunc])
    /\ UNCHANGED <<config, backgroundDBPoolsByName, backgroundDBPoolsLock, pools, calls, fatal>>

NextPrepare ==
    \/ \E id \in 1..MaxPrepID, d \in BOOLEAN, c \in BOOLEAN, t \in BOOLEAN : Prepare(id, d, c, t)
    \/ \E r \in BagToSet(tasks) : prepareDBs(r, BOOLEAN)

SpecPrepare == InitPrepare /\ [][NextPrepare]_vars

\* ---- Runs in which the flags take every combination and the backend calls
\* of prepareNewDB are kept with their results: TraceCalls calls, label set.
InitTrace ==
    /\ label = "pkg"
    /\ dropSchema \in BOOLEAN
    /\ createSchema \in BOOLEAN
    /\ truncate \in BOOLEAN
    /\ backgroundDBPoolsByName = [n \in PoolNames |-> 0]
    /\ backgroundDBPoolsLock = 0
    /\ pools = << >>
    /\ tasks = EmptyBag
    /\ calls = [c \in Calls |-> IdleCall]
    /\ fatal = "none"
    /\ NoSrcExpose

prepareNewDBTraced(r, results) ==
    \/ OpenTraced(r, results)
    \/ prepareDBs(r, results)
    \/ Push(r)

NextTrace ==
    \/ \E c \in 1..TraceCalls : Call(c)
    \/ \E c \in 1..TraceCalls : pristineDBs(c)
    \/ \E r \in BagToSet(tasks) : prepareNewDBTraced(r, BOOLEAN)
    \/ Tick

SpecTrace == InitTrace /\ [][NextTrace]_vars

\* ============================================ src-expose: snapshot.go
\* ---- bounds
\* Number of bytes given to one lineCountWriter.
MaxBytes == 4
\* Number of bytes given to one Write call.
MaxChunk == 2

\* ---------------------------------------------------------- lineCountWriter
\* The bytes a command prints: a newline or another byte.
Bytes == {"\n", "x"}

\* All byte strings of length at most n.
BytesUpTo(n) == UNION {[1..k -> Bytes] : k \in 0..n}

\* bytes.Index(b, []byte{'\n'}) + 1: the position of the first newline of b,
\* counted from 1, or 0 when b has none.
Index(b) ==
    IF \E i \in 1..Len(b) : b[i] = "\n"
    THEN CHOOSE i \in 1..Len(b) : b[i] = "\n" /\ \A j \in 1..(i - 1) : b[j] # "\n"
    ELSE 0

\* if !w.inline { w.lines++ ... }: the bytes at hand begin a line.
StartsLine_Always(inline) == TRUE
StartsLine(inline) == ~inline

\* A number of successful writes to the underlying writer that no Write
\* call exhausts.
NeverFails == 2 * MaxBytes + 2

\* func (w *lineCountWriter) Write(b []byte): the writer after the call,
\* when the first ok writes to the underlying writer w.w succeed and the
\* next one returns an error (which ends the call).
RECURSIVE Write(_, _, _)
Write(w, b, ok) ==
    IF Len(b) = 0 THEN w
    ELSE LET counted == IF StartsLine(w.inline) THEN [w EXCEPT !.lines = @ + 1] ELSE w
             left == IF StartsLine(w.inline) THEN ok - 1 ELSE ok
         IN IF StartsLine(w.inline) /\ ok = 0
            THEN [counted EXCEPT !.err = TRUE]
            ELSE LET i == Index(b)
                     off == IF i = 0 THEN Len(b) ELSE i
                     cut == [counted EXCEPT !.inline = (i = 0)]
                 IN IF left = 0
                    THEN [cut EXCEPT !.err = TRUE]
                    ELSE Write(cut, SubSeq(b, off + 1, Len(b)), left - 1)

\* func (w *lineCountWriter) Close(): ends a line left open.
Close(w) == [w EXCEPT !.inline = FALSE, !.closed = TRUE]

\* func run(...): the line count run returns for a command whose standard
\* output is out, written through a fresh lineCountWriter.
run(out) == Close(Write(lineCountWriter, out, NeverFails)).lines

\* ------------------------------------------------------------ Snapshotter
\* Number of Snapshots of the Snapshotter.
MaxSnapshots == 2
\* Number of bytes `git status` prints.
MaxOutput == 1

\* Values of Snapshotter.DirMode: unset, the three documented ones, and one
\* that is none of them.
DirModes == {"", "fail", "ignore", "remove_dest", "other"}

\* What a Destination holds: nothing (it does not exist), a directory
\* without .git/HEAD, or a bare repository.
Destinations == {"absent", "empty", "repo"}

\* The points at which snapshot can fail ("none": nowhere).
Stops == {"none", "mkdirall", "stathead", "init", "status", "rm", "add", "commit"}

\* The testdb package not running.
NoTestdb ==
    /\ label = "pkg"
    /\ dropSchema = TRUE
    /\ createSchema = TRUE
    /\ truncate = TRUE
    /\ backgroundDBPoolsByName = [n \in PoolNames |-> 0]
    /\ backgroundDBPoolsLock = 0
    /\ pools = << >>
    /\ tasks = EmptyBag
    /\ calls = [c \in Calls |-> IdleCall]
    /\ fatal = "none"

testdb == <<label, dropSchema, createSchema, truncate, backgroundDBPoolsByName,
            backgroundDBPoolsLock, pools, tasks, calls, fatal>>

\* A path is the sequence of its elements, "/" first when it is absolute;
\* the empty path is the empty string.
IsAbs(p) == p # << >> /\ p[1] = "/"

\* filepath.Join(root, dir)
Join(root, dir) == root \o dir

\* What os.Getwd and os.UserHomeDir answer when they succeed.
Getwd == <<"/", "cwd">>
UserHomeDir == <<"/", "home">>

\* filepath.Abs(p): p itself when it is absolute, else p under the working
\* directory, which is an error when os.Getwd fails (getwdOK false).
filepathAbs(p, getwdOK) ==
    IF IsAbs(p) THEN [path |-> p, err |-> FALSE]
    ELSE IF getwdOK THEN [path |-> Join(Getwd, p), err |-> FALSE]
    ELSE [path |-> << >>, err |-> TRUE]

\* func abs(root, dir string) (string, error)
abs(root, dir, getwdOK) ==
    filepathAbs(IF ~IsAbs(dir) THEN Join(root, dir) ELSE dir, getwdOK)

\* The loop of SetDefaults over o.Snapshots, from index i on: a Snapshot
\* without Destination and with a relative Dir gets its Dir as Destination,
\* then Dir is resolved against o.Dir and Destination against
\* o.Destination. The k-th call of abs is the one numbered failAt when
\* os.Getwd fails in it (0: in none). The fields already assigned stay
\* assigned when a later call fails.
RECURSIVE SetDefaultsFrom(_, _, _)
SetDefaultsFrom(o, i, failAt) ==
    IF i > Len(o.Snapshots) THEN [o |-> o, err |-> FALSE]
    ELSE LET s0 == o.Snapshots[i]
             s1 == IF s0.Destination = << >> /\ ~IsAbs(s0.Dir)
                   THEN [s0 EXCEPT !.Destination = s0.Dir]
                   ELSE s0
             d == abs(o.Dir, s1.Dir, failAt # 2 * i - 1)
             s2 == [s1 EXCEPT !.Dir = d.path]
             e == abs(o.Destination, s2.Destination, failAt # 2 * i)
             s3 == [s2 EXCEPT !.Destination = e.path]
         IN IF d.err THEN [o |-> [o EXCEPT !.Snapshots[i] = s1], err |-> TRUE]
            ELSE IF e.err THEN [o |-> [o EXCEPT !.Snapshots[i] = s2], err |-> TRUE]
            ELSE SetDefaultsFrom([o EXCEPT !.Snapshots[i] = s3], i + 1, failAt)

\* func (o *Snapshotter) SetDefaults() error: the Snapshotter it leaves and
\* whether it returns an error. o.Dir defaults to the working directory,
\* o.Destination to a directory under the home directory, o.DirMode to
\* "fail" (o.Duration, which Run does not read, is left out); an error
\* returned after a default has been assigned leaves that default in place.
SetDefaults(o, getwdOK, homeOK, failAt) ==
    IF o.Dir = << >> /\ ~getwdOK THEN [o |-> o, err |-> TRUE]
    ELSE LET o1 == [o EXCEPT !.Dir = IF @ = << >> THEN Getwd ELSE @] IN
         IF o1.Destination = << >> /\ ~homeOK THEN [o |-> o1, err |-> TRUE]
         ELSE SetDefaultsFrom(
                 [o1 EXCEPT !.Destination =
                               IF @ = << >>
                               THEN Join(UserHomeDir, <<".sourcegraph", "snapshots">>)
                               ELSE @,
                            !.DirMode = IF @ = "" THEN "fail" ELSE @],
                 1, failAt)

\* The directory q is p or lies inside p.
Within(p, q) == Len(p) <= Len(q) /\ SubSeq(q, 1, Len(p)) = p

\* os.RemoveAll(p) on the Destinations dest: p goes with all it contains.
RemoveAll(dest, p) ==
    [q \in DOMAIN dest |-> IF Within(p, q) THEN "absent" ELSE dest[q]]

\* os.MkdirAll(q/.git) on the Destinations dest: q and the directories q
\* lies in exist afterwards.
MkdirAll(dest, q) ==
    [p \in DOMAIN dest |-> IF Within(p, q) /\ dest[p] = "absent" THEN "empty" ELSE dest[p]]

\* The Dir and Destination a configuration file gives the i-th Snapshot: a
\* relative or an absolute Dir without Destination, or a relative Dir with
\* a relative Destination.
SnapshotPaths(i) ==
    LET name == ToString(i) IN
    {[Dir |-> <<"s" \o name>>, Destination |-> << >>],
     [Dir |-> <<"/", "s" \o name>>, Destination |-> << >>],
     [Dir |-> <<"s" \o name>>, Destination |-> <<"r" \o name>>]}

\* The Dir and Destination a configuration file gives the Snapshotter: both
\* unset, or both relative directories.
Roots == {[Dir |-> << >>, Destination |-> << >>], [Dir |-> <<"w">>, Destination |-> <<"d">>]}

\* A Snapshotter about to Run: Dir and Destination unset or relative, every
\* DirMode, with and without PreCommands, each Snapshot due or not
\* (time.Since(s.last) < s.MinDuration). On disk each Dir the Snapshots
\* resolve to is present or missing and each Destination is in every
\* condition (a directory that exists lies in one that exists); a
\* Destination is one directory however many Snapshots resolve to it. ops
\* lists the commands and file operations carried out for each Snapshot.
InitRun ==
    /\ NoTestdb
    /\ writer = lineCountWriter
    /\ \E m \in DirModes, pre \in BOOLEAN, root \in Roots,
          ss \in [1..MaxSnapshots -> [PreCommand : BOOLEAN, due : BOOLEAN]],
          paths \in [1..MaxSnapshots -> UNION {SnapshotPaths(i) : i \in 1..MaxSnapshots}] :
          /\ \A i \in 1..MaxSnapshots : paths[i] \in SnapshotPaths(i)
          /\ LET o == [Dir |-> root.Dir, Destination |-> root.Destination,
                       DirMode |-> m, PreCommand |-> pre,
                       Snapshots |-> [i \in 1..MaxSnapshots |->
                                        [PreCommand |-> ss[i].PreCommand,
                                         due |-> ss[i].due,
                                         Dir |-> paths[i].Dir,
                                         Destination |-> paths[i].Destination]],
                       pc |-> "start", next |-> 0, err |-> "nil"]
                 r == SetDefaults(o, TRUE, TRUE, 0).o
                 dirs == {r.Snapshots[i].Dir : i \in 1..MaxSnapshots}
                 dests == {r.Snapshots[i].Destination : i \in 1..MaxSnapshots}
             IN /\ snapshotter = o
                /\ disk \in [Dir : [dirs -> BOOLEAN],
                             Destination : [dests -> Destinations],
                             commits : {[p \in dests |-> 0]},
                             ops : {[i \in 1..MaxSnapshots |-> << >>]}]
                /\ \A p \in dests, q \in dests :
                      (Within(p, q) /\ disk.Destination[q] # "absent")
                         => disk.Destination[p] # "absent"

\* The snapshots are done in one goroutine: Run stands at one point.
Return(err) == [snapshotter EXCEPT !.pc = "returned", !.err = err]

\* What can fail before the loop of Run: os.Getwd or os.UserHomeDir in
\* SetDefaults, os.Getwd in its k-th call of abs, or o.PreCommand. The
\* first failure ends Run, so one point of failure describes a run.
StartFailures ==
    {[at |-> a, call |-> 0] : a \in {"none", "getwd", "home", "precommand"}}
       \cup {[at |-> "abs", call |-> k] : k \in 1..(2 * MaxSnapshots)}

\* if err := o.SetDefaults(); err != nil { return err }, then o.PreCommand.
Start ==
    /\ snapshotter.pc = "start"
    /\ \E fail \in StartFailures :
          LET r == SetDefaults(snapshotter, fail.at # "getwd", fail.at # "home", fail.call)
          IN snapshotter' =
                IF r.err THEN [r.o EXCEPT !.pc = "returned", !.err = "setdefaults"]
                ELSE IF r.o.PreCommand /\ fail.at = "precommand"
                THEN [r.o EXCEPT !.pc = "returned", !.err = "precommand"]
                ELSE [r.o EXCEPT !.pc = "loop", !.next = 1]
    /\ UNCHANGED <<testdb, disk, writer>>

\* What `switch o.DirMode` does when os.Stat(s.Dir) has failed: return the
\* error, continue with the next Snapshot, or remove the Destination; after
\* the switch, control reaches the call of snapshot.
OnMissing(mode) ==
    CASE mode = "fail" -> "return"
      [] mode = "ignore" -> "continue"
      [] mode = "remove_dest" -> "remove, snapshot"
      [] OTHER -> "snapshot"

\* One iteration of `for _, s := range o.Snapshots`, up to the call of
\* snapshot: the MinDuration test, s.PreCommand, os.Stat(s.Dir) and the
\* switch on o.DirMode.
Visit(i) ==
    /\ snapshotter.pc = "loop"
    /\ snapshotter.next = i
    /\ i <= Len(snapshotter.Snapshots)
    /\ LET s == snapshotter.Snapshots[i]
           continue == [snapshotter EXCEPT !.next = i + 1]
           call == [snapshotter EXCEPT !.pc = "snapshot"]
       IN IF ~s.due
          THEN snapshotter' = continue /\ UNCHANGED disk
          ELSE \E preOK \in BOOLEAN, removeOK \in BOOLEAN :
                  LET pre == IF s.PreCommand THEN <<"sh">> ELSE << >>
                      what == OnMissing(snapshotter.DirMode)
                  IN IF s.PreCommand /\ ~preOK
                     THEN /\ snapshotter' = Return("precommand")
                          /\ disk' = [disk EXCEPT !.ops[i] = @ \o pre]
                     ELSE IF disk.Dir[s.Dir]
                     THEN /\ snapshotter' = call
                          /\ disk' = [disk EXCEPT !.ops[i] = @ \o pre \o <<"stat">>]
                     ELSE IF what = "return"
                     THEN /\ snapshotter' = Return("missing")
                          /\ disk' = [disk EXCEPT !.ops[i] = @ \o pre \o <<"stat">>]
                     ELSE IF what = "continue"
                     THEN /\ snapshotter' = continue
                          /\ disk' = [disk EXCEPT !.ops[i] = @ \o pre \o <<"stat">>]
                     ELSE IF what = "snapshot"
                     THEN /\ snapshotter' = call
                          /\ disk' = [disk EXCEPT !.ops[i] = @ \o pre \o <<"stat">>]
                     ELSE IF ~removeOK
                     THEN /\ snapshotter' = Return("remove")
                          /\ disk' = [disk EXCEPT !.ops[i] = @ \o pre \o <<"stat">>]
                     ELSE /\ snapshotter' = call
                          /\ disk' = [disk EXCEPT
                                        !.ops[i] = @ \o pre \o <<"stat", "removeall">>,
                                        !.Destination = RemoveAll(@, s.Destination),
                                        !.commits = [q \in DOMAIN @ |->
                                                       IF Within(s.Destination, q)
                                                       THEN 0 ELSE @[q]]]
    /\ UNCHANGED <<testdb, writer>>

\* func snapshot(logger, src, dst): what it leaves of the Snapshot's
\* directories d and whether it returns an error, when it fails at stop (if
\* it gets there) and `git status` prints out. git status and the commit
\* commands run in src (cmd.Dir) and cannot start when src is missing.
snapshot(d, stop, out) ==
    LET did(e, op) == [e EXCEPT !.ops = Append(@, op)]
        d1 == [did(d, "mkdirall") EXCEPT
                 !.Destination = IF @ = "absent" THEN "empty" ELSE @]
        d2 == IF d1.Destination = "repo"
              THEN d1
              ELSE [did(d1, "init") EXCEPT !.Destination = "repo"]
        d3 == did(d2, "status")
    IN IF stop = "mkdirall" THEN [d |-> did(d, "mkdirall"), err |-> TRUE]
       ELSE IF stop = "stathead" THEN [d |-> d1, err |-> TRUE]
       ELSE IF d1.Destination # "repo" /\ stop = "init"
       THEN [d |-> did(d1, "init"), err |-> TRUE]
       ELSE IF ~d.Dir \/ stop = "status" THEN [d |-> d3, err |-> TRUE]
       ELSE IF run(out) = 0 THEN [d |-> d3, err |-> FALSE]
       ELSE IF stop = "rm" THEN [d |-> did(d3, "rm"), err |-> TRUE]
       ELSE IF stop = "add" THEN [d |-> did(did(d3, "rm"), "add"), err |-> TRUE]
       ELSE IF stop = "commit"
       THEN [d |-> did(did(did(d3, "rm"), "add"), "commit"), err |-> TRUE]
       ELSE [d |-> [did(did(did(d3, "rm"), "add"), "commit") EXCEPT !.commits = @ + 1],
             err |-> FALSE]

\* if err := snapshot(logger, s.Dir, s.Destination); err != nil { return err }
\* on the directories the Snapshot's Dir and Destination name.
Snapshot(i) ==
    /\ snapshotter.pc = "snapshot"
    /\ snapshotter.next = i
    /\ \E stop \in Stops, out \in BytesUpTo(MaxOutput) :
          LET s == snapshotter.Snapshots[i]
              d == [Dir |-> disk.Dir[s.Dir],
                    Destination |-> disk.Destination[s.Destination],
                    commits |-> disk.commits[s.Destination],
                    ops |-> disk.ops[i]]
              r == snapshot(d, stop, out)
              made == IF stop = "mkdirall"
                      THEN disk.Destination
                      ELSE MkdirAll(disk.Destination, s.Destination)
          IN /\ disk' = [disk EXCEPT
                           !.Destination = [made EXCEPT ![s.Destination] = r.d.Destination],
                           !.commits[s.Destination] = r.d.commits,
                           !.ops[i] = r.d.ops]
             /\ snapshotter' = IF r.err THEN Return("snapshot")
                               ELSE [snapshotter EXCEPT !.pc = "loop", !.next = i + 1]
    /\ UNCHANGED <<testdb, writer>>

\* return nil, after the last Snapshot
Finish ==
    /\ snapshotter.pc = "loop"
    /\ snapshotter.next > Len(snapshotter.Snapshots)
    /\ snapshotter' = Return("nil")
    /\ UNCHANGED <<testdb, disk, writer>>

NextRun ==
    \/ Start
    \/ \E i \in 1..MaxSnapshots : Visit(i)
    \/ \E i \in 1..MaxSnapshots : Snapshot(i)
    \/ Finish

SpecRun == InitRun /\ [][NextRun]_vars

\* ---- One lineCountWriter, used as any io.Writer may be: Write is called
\* with any bytes in any chunks, also after a Write that returned an error
\* and after Close; the underlying writer may fail at any of its writes.
InitWriter == NoTestdb /\ NoSrcExpose

\* w.Write(b), the underlying writer failing after ok successful writes.
\* The bytes given are bounded by MaxBytes.
WriteCall(b, ok) ==
    /\ Len(writer.input) + Len(b) <= MaxBytes
    /\ LET w == Write([writer EXCEPT !.err = FALSE], b, ok) IN
       writer' = [w EXCEPT !.input = writer.input \o b,
                           !.writes = writer.writes + (IF Len(b) > 0 THEN 1 ELSE 0),
                           !.failed = writer.failed + (IF w.err THEN 1 ELSE 0)]
    /\ UNCHANGED <<testdb, snapshotter, disk>>

\* _ = outW.Close(): a line left open ends with the newline Close writes.
CloseCall ==
    /\ writer' = [Close(writer) EXCEPT
                    !.input = IF writer.inline THEN Append(@, "\n") ELSE @]
    /\ UNCHANGED <<testdb, snapshotter, disk>>

NextWriter ==
    \/ \E b \in BytesUpTo(MaxChunk), ok \in 0..NeverFails : WriteCall(b, ok)
    \/ CloseCall

SpecWriter == InitWriter /\ [][NextWriter]_vars

\* ------------------------------------------------------------- properties
Count(q, x) == Cardinality({i \in 1..Len(q) : q[i] = x})

\* Number of goroutines whose state is in S.
NumTasks(S) == BagCardinality([r \in S \cap BagToSet(tasks) |-> tasks[r]])

TasksOfPool(p) == {r \in BagToSet(tasks) : r.pool = p}

PoolIdx == 1..Len(pools)

\* Calls that have passed the schema check and scheduled their replenishment.
Acquiring == {c \in Calls : calls[c].pc \in {"wait", "got", "timeout"}}
Got == {c \in Calls : calls[c].pc = "got"}
\* Calls that have looked their pool up in the registry.
LookedUp ==
    {c \in Calls : calls[c].pc \in {"unlock", "check", "wait", "got", "timeout", "mismatch"}}

\* C1. No double delivery: two calls that returned never hold the same
\* identity of the same pool, a returned identity is no longer in the
\* ready-queue, and the ready-queue holds no identity twice.
C1_NoDoubleDelivery ==
    /\ \A c1 \in Got, c2 \in Got :
          (c1 # c2 /\ calls[c1].b = calls[c2].b) => calls[c1].dbh # calls[c2].dbh
    /\ \A c \in Got : Count(pools[calls[c].b].readyDBs, calls[c].dbh) = 0
    /\ \A p \in PoolIdx : \A i \in IDs : Count(pools[p].readyDBs, i) <= 1

C1_Witness ==
    \E c1 \in Got, c2 \in Got : c1 # c2 /\ calls[c1].b = calls[c2].b

\* C2. Once-only creation: at most one pool object is ever constructed for a
\* name, exactly one (started) once a call has looked the name up, every such
\* call holds the registered object, and a registry entry once set never
\* changes.
C2_OneObject ==
    \A n \in PoolNames :
       LET objs == {p \in PoolIdx : pools[p].name = n} IN
       /\ Cardinality(objs) <= 1
       /\ \A c \in LookedUp :
             calls[c].name = n =>
                /\ objs = {calls[c].b}
                /\ backgroundDBPoolsByName[n] = calls[c].b
                /\ pools[calls[c].b].made

C2_EntryStable ==
    \A n \in PoolNames :
       backgroundDBPoolsByName[n] # 0 => backgroundDBPoolsByName'[n] = backgroundDBPoolsByName[n]

C2_OnceOnlyCreation == [](C2_OneObject) /\ [][C2_EntryStable]_vars

C2_Witness ==
    \E c1 \in LookedUp, c2 \in LookedUp : c1 # c2 /\ calls[c1].name = calls[c2].name

\* C3. Single binding: of two calls with the same name and different non-nil
\* schemas, once one has passed the schema check the other, when it reaches
\* the check, ends in SchemaMismatch; never both pass.
C3_Conflict(c1, c2) ==
    /\ c1 # c2
    /\ {c1, c2} \subseteq Begun
    /\ calls[c1].name = calls[c2].name
    /\ calls[c1].schema # "nil"
    /\ calls[c2].schema # "nil"
    /\ calls[c1].schema # calls[c2].schema

C3_SingleBinding ==
    \A c1 \in Calls, c2 \in Calls :
       (C3_Conflict(c1, c2) /\ c1 \in Acquiring) =>
          /\ c2 \notin Acquiring
          /\ calls[c2].pc \in {"idle", "lock", "unlock", "check", "mismatch"}
          /\ calls[c2].pc = "mismatch" => fatal = "SchemaMismatch"

C3_Witness ==
    \E c1 \in Calls, c2 \in Calls :
       C3_Conflict(c1, c2) /\ c1 \in Acquiring /\ calls[c2].pc = "mismatch"

\* C4. Idempotent ledger: when every prepareDBs invocation for an identity
\* has all three flags set, drop and create are performed at most once for
\* it and truncate at most once per invocation; once the k >= 1 invocations
\* have returned, drop and create have been performed exactly once and
\* truncate exactly k times.
C4_CallsFor(i) == {r \in BagToSet(tasks) : r.kind = "prepare" /\ r.id = i}

C4_AllFlags(i) == \A r \in C4_CallsFor(i) : r.drop /\ r.create /\ r.truncate

C4_Returned(i) == \A r \in C4_CallsFor(i) : r.pc = "done"

C4_IdempotentLedger ==
    \A i \in 1..MaxPrepID :
       LET k == NumTasks(C4_CallsFor(i))
           ops == pools[1].log[i]
       IN (k >= 1 /\ C4_AllFlags(i)) =>
             /\ Count(ops, "drop") <= 1
             /\ Count(ops, "create") <= 1
             /\ Count(ops, "truncate") <= k
             /\ C4_Returned(i) =>
                   /\ Count(ops, "drop") = 1
                   /\ Count(ops, "create") = 1
                   /\ Count(ops, "truncate") = k

C4_Witness ==
    \E i \in 1..MaxPrepID :
       NumTasks(C4_CallsFor(i)) >= 2 /\ C4_AllFlags(i) /\ C4_Returned(i)

\* C5. Backpressure: the ready-queue never holds more than initialPoolSize
\* handles, and a goroutine at its push while the queue is full is still at
\* its push after any step, with the same handle.
C5_Bounded == \A p \in PoolIdx : Len(pools[p].readyDBs) <= initialPoolSize

C5_Full(p) == Len(pools[p].readyDBs) = initialPoolSize

C5_StaysBlocked ==
    \A r \in BagToSet(tasks) :
       (r.pc = "push" /\ C5_Full(r.pool)) =>
          /\ r \in BagToSet(tasks')
          /\ CopiesIn(r, tasks') >= CopiesIn(r, tasks)

C5_Backpressure == [](C5_Bounded) /\ [][C5_StaysBlocked]_vars

C5_Witness ==
    \E r \in BagToSet(tasks) : r.pc = "push" /\ C5_Full(r.pool)

\* C6. Replenishment accounting: for every started pool the number of
\* provisioner goroutines ever started equals initialPoolSize plus the number
\* of calls that have reached their acquisition on that pool.
C6_ReplenishmentAccounting ==
    \A p \in PoolIdx :
       pools[p].made =>
          NumTasks(TasksOfPool(p)) =
             initialPoolSize + Cardinality({c \in Acquiring : calls[c].b = p})

C6_Witness ==
    \E p \in PoolIdx : \E c \in Acquiring : calls[c].b = p

\* C7. Refill liveness: with a backend that always succeeds and fair
\* scheduling, once the k calls made so far (k >= 1) have all returned a
\* handle, every pool's ready-queue eventually holds initialPoolSize
\* handles and all its initialPoolSize + k goroutines have completed their
\* push, unless a further call is made first.
C7_Returned(k) == Begun = 1..k /\ \A c \in 1..k : calls[c].pc = "got"

C7_AllReturned == C7_Returned(FairCalls)

C7_Refilled ==
    \A p \in PoolIdx :
       /\ Len(pools[p].readyDBs) = initialPoolSize
       /\ \A r \in TasksOfPool(p) : r.pc = "done"
       /\ NumTasks(TasksOfPool(p)) =
             initialPoolSize + Cardinality({c \in Got : calls[c].b = p})

C7_RefillLiveness ==
    \A k \in 1..FairCalls : C7_Returned(k) ~> (C7_Refilled \/ Begun # 1..k)

C7_Witness == C7_AllReturned /\ C7_Refilled

\* C8. Timeout fidelity: a call that failed with ProvisionTimeout had waited
\* at least timeout seconds, holds no handle, and the process has terminated
\* with ProvisionTimeout.
C8_TimeoutFidelity ==
    \A c \in Calls :
       calls[c].pc = "timeout" =>
          /\ calls[c].elapsed >= timeout
          /\ calls[c].dbh = 0
          /\ fatal = "ProvisionTimeout"

C8_Witness == \E c \in Calls : calls[c].pc = "timeout"

\* C9 as claimed: every call that waits eventually returns a handle or fails
\* with ProvisionTimeout.
C9_Ended(c) == calls[c].pc \in {"got", "timeout"}

C9_Original == \A c \in 1..FairCalls : (calls[c].pc = "wait") ~> C9_Ended(c)

\* C9, amended. Every call that has begun eventually returns a handle, fails
\* with ProvisionTimeout, or is ended by the termination of the process
\* through another fatal outcome; no call waits forever.
C9_BoundedWait ==
    \A c \in 1..FairCalls :
       (calls[c].pc \in {"lock", "unlock", "check", "wait"}) ~> (C9_Ended(c) \/ fatal # "none")

\* A call waits for a handle when a concurrent call for the same pool ends
\* the process with SchemaMismatch: the wait is over without a handle and
\* without ProvisionTimeout.
C9_Witness ==
    \E c \in 1..FairCalls, d \in 1..FairCalls :
       /\ c # d
       /\ calls[c].b = calls[d].b
       /\ calls[c].pc = "wait"
       /\ calls[d].pc = "mismatch"
       /\ fatal = "SchemaMismatch"

\* C10 as claimed: after a ProvisionTimeout the goroutines in flight go on
\* and the ready-queue of every pool is eventually refilled.
C10_Original ==
    (fatal = "ProvisionTimeout") ~> (\A p \in PoolIdx : pools[p].readyDBs # << >>)

\* C10, amended. The step in which a call fails with ProvisionTimeout leaves
\* the registry, the pools (queue, ledger, counter) and the goroutines as
\* they were, and terminates the process: no goroutine takes a step after.
C10_TimeoutStep ==
    \A c \in Calls :
       (calls[c].pc = "wait" /\ calls'[c].pc = "timeout") =>
          /\ pools' = pools
          /\ tasks' = tasks
          /\ backgroundDBPoolsByName' = backgroundDBPoolsByName
          /\ fatal' = "ProvisionTimeout"

C10_Terminated == fatal = "ProvisionTimeout" => UNCHANGED vars

C10_TimeoutTerminates == [][C10_TimeoutStep /\ C10_Terminated]_vars

C10_Witness ==
    /\ fatal = "ProvisionTimeout"
    /\ \E r \in BagToSet(tasks) : r.pc # "done"

\* Provisioner goroutines of pool p that have obtained their identity.
Identified(p) == {r \in TasksOfPool(p) : r.kind = "provision" /\ r.id # 0}

\* C11. Unique identities: within one pool no identity is held by two
\* provisioner goroutines, every identity issued is at most the counter,
\* the counter equals the number of identities issued, and the counter
\* never decreases.
C11_Distinct ==
    \A p \in PoolIdx :
       /\ \A r \in Identified(p) :
             /\ CopiesIn(r, tasks) = 1
             /\ r.id <= pools[p].nextID
             /\ \A r2 \in Identified(p) : r2.id = r.id => r2 = r
       /\ pools[p].nextID = NumTasks(Identified(p))

C11_Monotone == \A p \in PoolIdx : pools'[p].nextID >= pools[p].nextID

C11_UniqueIdentities == [](C11_Distinct) /\ [][C11_Monotone]_vars

C11_Witness ==
    \E p \in PoolIdx : \E r1 \in Identified(p), r2 \in Identified(p) : r1.id # r2.id

\* Calls whose schema argument has been compared with their pool's schema.
Checked == {c \in Calls : calls[c].pc \in {"wait", "got", "timeout", "mismatch"}}

\* C12. Schema binding immutable: no step changes the schema field of a
\* pool object that exists, whatever schema the calls pass.
C12_SchemaKept ==
    \A p \in PoolIdx :
       /\ p <= Len(pools')
       /\ pools'[p].schema = pools[p].schema
       /\ pools'[p].name = pools[p].name

C12_SchemaImmutable == [][C12_SchemaKept]_vars

C12_Witness ==
    \E c \in Checked : calls[c].schema # pools[calls[c].b].schema

\* The schema argument of call c is nil or the schema its pool is bound to.
Compatible(c) ==
    /\ calls[c].b # 0
    /\ calls[c].schema = "nil" \/ calls[c].schema = pools[calls[c].b].schema

\* C13. Compatible schema accepted: a call that found its pool in the
\* registry and passes nil or the pool's schema does not end in
\* SchemaMismatch; its check takes it to the acquisition, starting one
\* replenishing goroutine and leaving the process running.
C13_Accepted ==
    \A c \in Calls :
       (calls[c].pc = "check" /\ Compatible(c) /\ calls'[c].pc # "check") =>
          /\ calls'[c].pc = "wait"
          /\ fatal' = "none"
          /\ BagCardinality(tasks') = BagCardinality(tasks) + 1

C13_NoMismatch == \A c \in Calls : calls[c].pc = "mismatch" => ~Compatible(c)

C13_CompatibleAccepted == [](C13_NoMismatch) /\ [][C13_Accepted]_vars

C13_Witness ==
    \E c \in Acquiring, d \in Acquiring :
       /\ c # d
       /\ calls[c].b = calls[d].b
       /\ Compatible(c) /\ Compatible(d)
       /\ calls[c].schema # calls[d].schema

\* Goroutines of pool p between b.mu.Lock() and the deferred b.mu.Unlock()
\* of prepareDBs (a log.Fatal inside prepareDBs exits without unlocking).
InPrepare(p) ==
    {r \in TasksOfPool(p) :
        r.pc \in {"drop", "create", "truncate", "unlock",
                  "dropfailed", "createfailed", "truncatefailed"}}

\* C14. Lock discipline: the pool lock is held exactly while one goroutine
\* is inside prepareDBs, so never by a goroutine that has reached its push
\* (blocked or not) or has not yet entered prepareDBs; the step that leaves
\* prepareDBs releases it. The calls, which receive from the queue, never
\* take the pool lock.
C14_HeldInPrepare ==
    \A p \in PoolIdx :
       /\ pools[p].mu => NumTasks(InPrepare(p)) = 1
       /\ ~pools[p].mu => NumTasks(InPrepare(p)) = 0

C14_ReleasedBeforePush ==
    \A r \in BagToSet(tasks) :
       (r.pc = "unlock" /\ CopiesIn(r, tasks') < CopiesIn(r, tasks)) =>
          /\ ~pools'[r.pool].mu
          /\ [r EXCEPT !.pc = "push"] \in BagToSet(tasks')

C14_LockDiscipline == [](C14_HeldInPrepare) /\ [][C14_ReleasedBeforePush]_vars

C14_Witness ==
    \E r \in BagToSet(tasks) :
       /\ r.pc = "push"
       /\ C5_Full(r.pool)
       /\ pools[r.pool].mu
       /\ \E c \in Calls : calls[c].pc = "wait" /\ calls[c].b = r.pool

\* The ledger of pool p: dropped, created, and the operations performed.
Ledger(p) == <<pools[p].dropped, pools[p].created, pools[p].log>>

\* C15. Serialized preparation: at most one prepareDBs invocation is inside
\* its critical section per pool, it holds the pool lock, and a step that
\* changes the pool's ledger is a step of that invocation, taken with the
\* lock held, at the point where it reads and writes dropped[id] and
\* created[id], and changes the entries of its own identity only.
C15_OneAtATime ==
    \A p \in PoolIdx :
       /\ NumTasks(InPrepare(p)) <= 1
       /\ NumTasks(InPrepare(p)) = 1 => pools[p].mu

C15_LedgerUnderLock ==
    \A p \in PoolIdx :
       Ledger(p)' # Ledger(p) =>
          /\ pools[p].mu
          /\ \E r \in InPrepare(p) :
                /\ r.pc \in {"drop", "create", "truncate"}
                /\ r \notin BagToSet(tasks')
                /\ pools'[p].dropped \subseteq pools[p].dropped \cup {r.id}
                /\ pools'[p].created \subseteq pools[p].created \cup {r.id}
                /\ \A i \in IDs : i # r.id => pools'[p].log[i] = pools[p].log[i]

C15_SerializedPreparation == [](C15_OneAtATime) /\ [][C15_LedgerUnderLock]_vars

C15_Witness ==
    \E r1 \in BagToSet(tasks), r2 \in BagToSet(tasks) :
       /\ r1.pool = r2.pool
       /\ r1.id = r2.id
       /\ r1 \in InPrepare(r1.pool)
       /\ r2.pc = "lock"

\* The step in which call c takes the registry lock and looks its name up.
C16_Lookup(c) ==
    /\ calls[c].pc = "lock"
    /\ backgroundDBPoolsLock = 0
    /\ backgroundDBPoolsLock' = c

\* C16. Creation completes inside the registry critical section. The
\* lookup step of a call whose name has no pool constructs the pool, binds
\* the call's schema, leaves the ledger empty and (with a label) the queue
\* made with capacity initialPoolSize, and starts exactly initialPoolSize
\* goroutines, all with the registry lock still held; the lookup step of a
\* call whose name has a pool changes no pool and starts no goroutine. A
\* call holds the registry lock exactly from its lookup to its release, and
\* a pool obtained by a call is fully initialized.
C16_LookupStep ==
    \A c \in Calls :
       C16_Lookup(c) =>
          LET n == calls[c].name
              p == backgroundDBPoolsByName'[n]
          IN IF backgroundDBPoolsByName[n] = 0
             THEN /\ p = Len(pools) + 1
                  /\ Len(pools') = p
                  /\ pools'[p].name = n
                  /\ pools'[p].schema = calls[c].schema
                  /\ pools'[p].dropped = {} /\ pools'[p].created = {}
                  /\ pools'[p].readyDBs = << >>
                  /\ pools'[p].nextID = 0
                  /\ IF label = ""
                     THEN calls'[c].b = 0 /\ fatal' = "ConfigError" /\ tasks' = tasks
                     ELSE /\ calls'[c].b = p
                          /\ pools'[p].made
                          /\ pools'[p].cap = initialPoolSize
                          /\ tasks' = Spawn(tasks, p, initialPoolSize)
                          /\ CopiesIn(NewTask(p), tasks') = initialPoolSize
             ELSE /\ calls'[c].b = backgroundDBPoolsByName[n]
                  /\ pools' = pools
                  /\ tasks' = tasks
                  /\ backgroundDBPoolsByName' = backgroundDBPoolsByName

C16_Initialized ==
    /\ \A c \in Calls :
          /\ calls[c].pc = "unlock" => backgroundDBPoolsLock = c
          /\ backgroundDBPoolsLock = c =>
                \/ calls[c].pc = "unlock"
                \/ calls[c].pc = "lock" /\ fatal = "ConfigError"
          /\ calls[c].b # 0 =>
                /\ pools[calls[c].b].made
                /\ pools[calls[c].b].cap = initialPoolSize
                /\ NumTasks(TasksOfPool(calls[c].b)) >= initialPoolSize
    /\ \A n \in PoolNames :
          (backgroundDBPoolsByName[n] # 0 /\ fatal = "none") =>
             pools[backgroundDBPoolsByName[n]].made

C16_CreationInCriticalSection == [](C16_Initialized) /\ [][C16_LookupStep]_vars

C16_Witness ==
    \E c \in Calls, d \in Acquiring :
       /\ calls[c].pc = "unlock"
       /\ backgroundDBPoolsLock = c
       /\ calls[d].b = calls[c].b
       /\ NumTasks(TasksOfPool(calls[c].b)) = initialPoolSize + 1

\* The schema operations among the entries of a log, in their order.
SchemaOps(q) == SelectSeq(q, LAMBDA x : x \in {"drop", "create", "truncate"})

\* The operations prepareDBs applies to a fresh identity under the flags.
EnabledOps ==
    (IF dropSchema THEN <<"drop">> ELSE << >>)
       \o (IF createSchema THEN <<"create">> ELSE << >>)
       \o (IF truncate THEN <<"truncate">> ELSE << >>)

\* Identities of pool p whose handle is in the ready-queue or was returned.
Delivered(p) ==
    {pools[p].readyDBs[k] : k \in 1..Len(pools[p].readyDBs)}
       \cup {calls[c].dbh : c \in {d \in Got : calls[d].b = p}}

\* C17. Handles queued only after preparation: the identity of every handle
\* in a ready-queue or returned to a call belongs to a goroutine that has
\* finished, and the schema operations performed on it are exactly the
\* enabled ones in the order drop, create, truncate, all of them successful
\* and recorded in the ledger; the same holds of a goroutine at its push.
C17_Prepared(p, i) ==
    /\ SchemaOps(pools[p].log[i]) = EnabledOps
    /\ dropSchema => i \in pools[p].dropped
    /\ createSchema => i \in pools[p].created

C17_QueuedAfterPreparation ==
    \A p \in PoolIdx :
       /\ \A i \in Delivered(p) :
             /\ C17_Prepared(p, i)
             /\ \E r \in Identified(p) : r.id = i /\ r.pc = "done"
       /\ \A r \in Identified(p) :
             /\ r.pc \in {"push", "done"} => C17_Prepared(p, r.id)
             /\ r.pc = "done" => r.id \in Delivered(p)

C17_Witness ==
    /\ dropSchema /\ ~createSchema /\ truncate
    /\ \E c \in Got : calls[c].dbh # 0
    /\ \E p \in PoolIdx : pools[p].readyDBs # << >>

\* The last operation attempted on identity i of pool p.
LastOp(p, i) ==
    LET q == pools[p].log[i] IN IF q = << >> THEN "none" ELSE q[Len(q)]

\* Invocations of prepareDBs on identity i of pool p that stand at pc.
At(p, i, pc) == {r \in TasksOfPool(p) : r.id = i /\ r.pc = pc}

\* C18. Fatal drop/create failure leaves the ledger unmarked. An invocation
\* whose drop failed has terminated the process with SchemaDropFailed, its
\* identity is not recorded as dropped and the failed drop is the last
\* operation attempted on it (no create, no truncate after); likewise for a
\* failed create, SchemaCreateFailed and created, with no truncate after.
\* An identity is recorded as dropped (created) exactly when a drop
\* (create) was performed on it and did not fail; no step follows the
\* failure.
C18_Unmarked ==
    \A p \in PoolIdx : \A i \in IDs :
       /\ At(p, i, "dropfailed") # {} =>
             /\ fatal = "SchemaDropFailed"
             /\ i \notin pools[p].dropped
             /\ LastOp(p, i) = "drop"
       /\ At(p, i, "createfailed") # {} =>
             /\ fatal = "SchemaCreateFailed"
             /\ i \notin pools[p].created
             /\ LastOp(p, i) = "create"
       /\ i \in pools[p].dropped <=>
             (Count(pools[p].log[i], "drop") = 1 /\ At(p, i, "dropfailed") = {})
       /\ i \in pools[p].created <=>
             (Count(pools[p].log[i], "create") = 1 /\ At(p, i, "createfailed") = {})
       /\ fatal = "SchemaDropFailed" => \E r \in BagToSet(tasks) : r.pc = "dropfailed"
       /\ fatal = "SchemaCreateFailed" => \E r \in BagToSet(tasks) : r.pc = "createfailed"

C18_Stopped ==
    fatal \in {"SchemaDropFailed", "SchemaCreateFailed"} => UNCHANGED vars

C18_FailureLeavesLedgerUnmarked == [](C18_Unmarked) /\ [][C18_Stopped]_vars

C18_Witness ==
    \E i \in IDs :
       /\ At(1, i, "dropfailed") # {}
       /\ \E j \in IDs : j # i /\ j \in pools[1].dropped /\ j \in pools[1].created

\* C19. Open failure is fatal with no retry: a goroutine whose Open failed
\* has terminated the process with OpenFailed, Open was attempted once for
\* its identity and nothing was attempted on it after, the identity is in
\* no ledger and in no ready-queue and was returned to no call; a goroutine
\* is in that state exactly when its Open failed, and no step follows.
C19_OpenFailed ==
    \A p \in PoolIdx : \A r \in Identified(p) :
       LET q == pools[p].log[r.id] IN
       /\ Count(q, "open") + Count(q, "open-failed") <= 1
       /\ r.pc = "openfailed" <=> Count(q, "open-failed") = 1
       /\ r.pc = "openfailed" =>
             /\ fatal = "OpenFailed"
             /\ LastOp(p, r.id) = "open-failed"
             /\ SchemaOps(q) = << >>
             /\ r.id \notin pools[p].dropped \cup pools[p].created
             /\ r.id \notin Delivered(p)

C19_Stopped ==
    /\ fatal = "OpenFailed" => UNCHANGED vars
    /\ fatal' = "OpenFailed" => \E r \in BagToSet(tasks') : r.pc = "openfailed"

C19_OpenFailureFatal == [](C19_OpenFailed) /\ [][C19_Stopped]_vars

C19_Witness ==
    \E r \in BagToSet(tasks), c \in Got :
       /\ r.pc = "openfailed"
       /\ calls[c].b = r.pool
       /\ calls[c].dbh # r.id

\* q is an initial part of the sequence s.
IsPrefix(q, s) == Len(q) <= Len(s) /\ q = SubSeq(s, 1, Len(q))

\* Goroutines that have terminated the process from inside prepareNewDB.
Failed ==
    {r \in BagToSet(tasks) :
        r.pc \in {"panic", "openfailed", "dropfailed", "createfailed", "truncatefailed"}}

\* C20. External creation failure is swallowed. A goroutine that holds an
\* identity has called createdb for it unless it still stands before that
\* call; whatever createdb answered, the goroutine goes on to Open, which
\* is the next backend call made for the identity (when the pool has a
\* schema); the goroutine stands at the failure of Open exactly when Open
\* failed; after a successful Open the schema operations performed are an
\* initial part of the enabled ones, all of them once the goroutine has
\* reached its push, and a finished goroutine's handle has been delivered.
\* The process is terminated from prepareNewDB only by a nil schema, a
\* failed Open or a failed schema operation.
C20_Proceeds(p, r) ==
    LET q == pools[p].log[r.id] IN
    /\ r.pc = "createdb" <=> q = << >>
    /\ r.pc = "panic" => pools[p].schema = "nil"
    /\ Len(q) >= 1 =>
          /\ q[1] \in {"createdb", "createdb-failed"}
          /\ Len(q) = 1 <=> r.pc \in {"open", "panic"}
    /\ Len(q) >= 2 =>
          /\ pools[p].schema # "nil"
          /\ q[2] \in {"open", "open-failed"}
          /\ r.pc = "openfailed" <=> q[2] = "open-failed"
          /\ IsPrefix(SchemaOps(q), EnabledOps)
          /\ r.pc \in {"push", "done"} => C17_Prepared(p, r.id)
          /\ r.pc = "done" => r.id \in Delivered(p)

C20_CreationFailureSwallowed ==
    /\ \A p \in PoolIdx : \A r \in Identified(p) : C20_Proceeds(p, r)
    /\ fatal \in {"NilSchemaPanic", "OpenFailed", "SchemaDropFailed",
                  "SchemaCreateFailed", "TruncateFailed"} => Failed # {}
    /\ Failed # {} => fatal # "none"

C20_Witness ==
    \E c \in Got :
       /\ pools[calls[c].b].log[calls[c].dbh][1] = "createdb-failed"
       /\ \E r \in Identified(calls[c].b) :
             r.pc = "done" /\ pools[calls[c].b].log[r.id][1] = "createdb"

\* C21. Empty label is a fatal configuration error at pool start: with an
\* empty label the first call that creates a pool, whatever its name,
\* terminates the process with ConfigError; the pool's ready-queue is never
\* made, no goroutine is ever started and no call gets past its lookup.
\* With a label set, ConfigError never occurs.
C21_EmptyLabelFatal ==
    /\ label = "" =>
          /\ tasks = EmptyBag
          /\ \A p \in PoolIdx :
                /\ ~pools[p].made
                /\ pools[p].cap = 0
                /\ pools[p].readyDBs = << >>
                /\ fatal = "ConfigError"
          /\ \A n \in PoolNames : backgroundDBPoolsByName[n] # 0 => fatal = "ConfigError"
          /\ \A c \in Calls : calls[c].pc \in {"idle", "lock"} /\ calls[c].b = 0
          /\ fatal \in {"none", "ConfigError"}
    /\ fatal = "ConfigError" =>
          /\ label = ""
          /\ Len(pools) = 1
          /\ backgroundDBPoolsLock # 0
          /\ calls[backgroundDBPoolsLock].name = pools[1].name
    /\ label # "" => fatal # "ConfigError"

C21_Witness ==
    /\ label = ""
    /\ fatal = "ConfigError"
    /\ \E c \in Calls : backgroundDBPoolsLock = c /\ calls[c].pc = "lock"

\* Invocations of prepareDBs on identity i whose flag f ("drop", "create"
\* or "truncate") is set and that stand at one of the points in pcs.
C22_With(i, f, pcs) ==
    {r \in C4_CallsFor(i) :
        r.pc \in pcs /\ (CASE f = "drop" -> r.drop
                           [] f = "create" -> r.create
                           [] OTHER -> r.truncate)}

\* The points of prepareDBs after the drop, create and truncate blocks.
AfterDrop == {"create", "truncate", "unlock", "done", "createfailed", "truncatefailed"}
AfterCreate == {"truncate", "unlock", "done", "truncatefailed"}
AfterTruncate == {"unlock", "done"}

\* C22. Flags are independent and a disabled step leaves no trace. For
\* every identity and every combination of flags of its invocations: drop
\* has been attempted once if an invocation with the drop flag set has gone
\* through its drop block and not at all otherwise, and the identity is
\* marked dropped exactly when such an invocation got past the block;
\* likewise for create; truncate has been attempted once per invocation
\* with the truncate flag set that has gone through its truncate block. So
\* invocations with a flag unset neither perform nor mark, whatever their
\* other flags, and a later invocation with the flag set performs the step.
C22_FlagsIndependent ==
    \A i \in 1..MaxPrepID :
       LET q == pools[1].log[i] IN
       /\ Count(q, "drop") =
             IF C22_With(i, "drop", AfterDrop \cup {"dropfailed"}) # {} THEN 1 ELSE 0
       /\ i \in pools[1].dropped <=> C22_With(i, "drop", AfterDrop) # {}
       /\ Count(q, "create") =
             IF C22_With(i, "create", AfterCreate \cup {"createfailed"}) # {} THEN 1 ELSE 0
       /\ i \in pools[1].created <=> C22_With(i, "create", AfterCreate) # {}
       /\ Count(q, "truncate") =
             NumTasks(C22_With(i, "truncate", AfterTruncate \cup {"truncatefailed"}))

C22_Witness ==
    \E i \in 1..MaxPrepID :
       LET q == pools[1].log[i] IN
       /\ \E r \in C4_CallsFor(i) : r.pc = "done" /\ ~r.drop /\ ~r.create /\ r.truncate
       /\ \E r \in C4_CallsFor(i) : r.pc = "done" /\ r.drop /\ r.create /\ ~r.truncate
       /\ q = <<"truncate", "drop", "create">>

\* Goroutines of pool p that have not completed their push.
Unpushed(p) == {r \in TasksOfPool(p) : r.pc # "done"}

Returned(p) == {c \in Got : calls[c].b = p}

Waiting(p) == {c \in Calls : calls[c].pc = "wait" /\ calls[c].b = p}

\* C23. Conservation of handles: while the process runs, the counter of a
\* pool equals the number of goroutines that have obtained an identity,
\* which equals the handles in the ready-queue plus the handles returned
\* plus the goroutines holding an identity that have not completed their
\* push; and the handles in the queue plus the goroutines that have not
\* completed their push minus the calls waiting equals initialPoolSize.
C23_Conservation ==
    fatal = "none" =>
       \A p \in PoolIdx :
          /\ pools[p].nextID = NumTasks(Identified(p))
          /\ pools[p].nextID =
                Len(pools[p].readyDBs) + Cardinality(Returned(p))
                   + NumTasks(Identified(p) \cap Unpushed(p))
          /\ Len(pools[p].readyDBs) + NumTasks(Unpushed(p))
                = initialPoolSize + Cardinality(Waiting(p))

C23_Witness ==
    /\ fatal = "none"
    /\ \E p \in PoolIdx :
          /\ pools[p].readyDBs # << >>
          /\ Returned(p) # {}
          /\ Waiting(p) # {}
          /\ Identified(p) \cap Unpushed(p) # {}

\* Call c has begun, has not finished its schema check, and its name has a
\* pool bound to a schema that its (non-nil) schema argument differs from.
C24_Mismatching(c) ==
    /\ calls[c].pc \in {"lock", "unlock", "check"}
    /\ backgroundDBPoolsByName[calls[c].name] # 0
    /\ SchemaMismatch(calls[c].schema, pools[backgroundDBPoolsByName[calls[c].name]].schema)

\* C24. Schema mismatch has no side effect on the pool: every step of a
\* call that meets a pool bound to another schema, from its lookup to its
\* failure with SchemaMismatch, leaves the registry, all pools (schema,
\* ledger, queue, counter) and the goroutines as they were, and the call
\* receives no handle; the process terminates, so nothing follows.
C24_CallStep ==
    \A c \in Calls :
       (C24_Mismatching(c) /\ calls'[c] # calls[c]) =>
          /\ pools' = pools
          /\ tasks' = tasks
          /\ backgroundDBPoolsByName' = backgroundDBPoolsByName
          /\ calls'[c].dbh = 0
          /\ calls'[c].pc \in {"unlock", "check", "mismatch"}
          /\ calls'[c].pc = "mismatch" <=> fatal' = "SchemaMismatch"

C24_Stopped == fatal = "SchemaMismatch" => UNCHANGED vars

C24_MismatchNoSideEffect == [][C24_CallStep /\ C24_Stopped]_vars

C24_Witness ==
    \E c \in Calls, d \in Acquiring :
       /\ calls[c].pc = "mismatch"
       /\ calls[d].b = calls[c].b
       /\ NumTasks(TasksOfPool(calls[c].b)) = initialPoolSize + 1
       /\ pools[calls[c].b].nextID > 0

\* The commands and file operations of the function snapshot.
SnapshotOps == {"mkdirall", "init", "status", "rm", "add", "commit"}

Has(q, ops) == \E k \in 1..Len(q) : q[k] \in ops

\* Run has found the Dir of Snapshot i missing.
MissingSeen(i) ==
    /\ Has(disk.ops[i], {"stat"})
    /\ ~disk.Dir[snapshotter.Snapshots[i].Dir]

\* C25, DirMode "fail" (the default): Run has returned the error at the
\* first Snapshot whose Dir is missing, with no snapshot taken for it and
\* nothing done for any later Snapshot.
C25_Fail ==
    \A i \in 1..MaxSnapshots :
       (snapshotter.DirMode = "fail" /\ MissingSeen(i)) =>
          /\ snapshotter.pc = "returned"
          /\ snapshotter.err = "missing"
          /\ snapshotter.next = i
          /\ ~Has(disk.ops[i], SnapshotOps)
          /\ \A j \in (i + 1)..MaxSnapshots : disk.ops[j] = << >>

\* C25, DirMode "ignore": no snapshot is taken for the missing Dir, its
\* Destination is not removed, and Run has gone on to the next Snapshot.
C25_Ignore ==
    \A i \in 1..MaxSnapshots :
       (snapshotter.DirMode = "ignore" /\ MissingSeen(i)) =>
          /\ ~Has(disk.ops[i], SnapshotOps \cup {"removeall"})
          /\ snapshotter.next > i
          /\ snapshotter.err # "missing"

\* C25, DirMode "remove_dest": unless removing failed, the Destination of
\* the missing Dir has been removed and nothing is created there again for
\* this Snapshot.
C25_RemoveDest ==
    \A i \in 1..MaxSnapshots :
       (/\ snapshotter.DirMode = "remove_dest"
        /\ MissingSeen(i)
        /\ ~(snapshotter.err = "remove" /\ snapshotter.next = i)) =>
          /\ Has(disk.ops[i], {"removeall"})
          /\ ~Has(disk.ops[i], {"mkdirall", "init"})

\* C25 as claimed. Snapshotter.Run handles a missing Dir as DirMode says:
\* "fail" returns an error and takes no snapshot for it or any later entry,
\* "ignore" skips it and continues, "remove_dest" removes the Destination
\* and no repository is recreated there.
C25_DirMode == C25_Fail /\ C25_Ignore /\ C25_RemoveDest

\* A Destination removed for its missing Dir holds a repository again.
C25_Witness ==
    \E i \in 1..MaxSnapshots :
       /\ snapshotter.DirMode = "remove_dest"
       /\ MissingSeen(i)
       /\ Has(disk.ops[i], {"removeall"})
       /\ Has(disk.ops[i], {"init"})
       /\ disk.Destination[snapshotter.Snapshots[i].Destination] = "repo"
       /\ snapshotter.err = "snapshot"

\* The number of lines of the byte string s, the last one possibly
\* unterminated.
NumLines(s) ==
    Cardinality({i \in 1..Len(s) : s[i] = "\n"})
       + (IF Len(s) > 0 /\ s[Len(s)] # "\n" THEN 1 ELSE 0)

\* C26 as claimed: after any sequence of Write calls, lines is the number of
\* lines of the concatenation of the bytes given, however they were split,
\* and lines is 0 exactly when no byte was given.
C26_Original ==
    /\ writer.lines = NumLines(writer.input)
    /\ writer.lines = 0 <=> writer.input = << >>

\* C26, amended. After any sequence of Write calls, whether or not writes
\* to the underlying writer failed, lines is 0 exactly when no byte was
\* given, and lines exceeds the number of lines of the concatenation of the
\* bytes given by at most the number of Write calls that returned an error
\* (a line whose prefix could not be written is counted again by the next
\* Write). When no Write call has returned an error, lines is exactly that
\* number, however the bytes were split, and the writer is inside a line
\* exactly when the concatenation ends unterminated. A Close in between
\* ends the line left open, which counts as given a newline.
C26_LineCount ==
    /\ writer.lines = 0 <=> writer.input = << >>
    /\ writer.lines <= NumLines(writer.input) + writer.failed
    /\ writer.failed = 0 =>
          /\ writer.lines = NumLines(writer.input)
          /\ writer.inline <=>
                (writer.input # << >> /\ writer.input[Len(writer.input)] # "\n")

\* A Write whose prefix could not be written has counted its line, and the
\* next Write, continuing that line, has counted it again.
C26_Witness ==
    /\ writer.failed = 1
    /\ ~writer.err
    /\ writer.writes = 2
    /\ writer.input = <<"x", "x">>
    /\ writer.lines = 2

====
